---- MODULE Spec2Model ----
(***************************************************************************)
(* The session / authentication lifecycle of the task-management frontend: *)
(* AuthService (services/auth.service.ts), AuthInterceptor                 *)
(* (interceptors/auth.interceptor.ts), the APP_INITIALIZER of              *)
(* app.module.ts and the components that call them.  The browser is        *)
(* single threaded: every action below is one event-loop turn, either a    *)
(* user-triggered call or the completion handler of one network request.   *)
(***************************************************************************)
EXTENDS Integers, Sequences, FiniteSets, TLC

\* ------------------------------------------------------------------ bounds
\* requests issued in one run
MaxReqs == 4

\* ------------------------------------------------------------------ values
Users == {1, 2}
\* null: no token in localStorage, no user in currentUserSubject, no header
None == <<>>
\* a bearer token <<serial, user it was issued to>>
Tokens == (0..MaxReqs) \X Users
\* the token a previous run of the application left in localStorage
StaleToken == <<0, 1>>
\* the header value `Bearer ${null}` that getAuthHeaders builds without a token
NullBearer == <<0, 0>>
\* the editable part of a profile (email, full_name): two possible contents
Data == {0, 1}
\* a user record <<id, editable part>>
UserRecs == Users \X Data
Statuses == {200, 401, 500}
\* ProfileComponent.changePassword: the least length of a new password
MinPasswordLength == 6
\* what can be typed into a password field: nothing, five characters, six
\* characters
Passwords == {<<>>, <<1, 2, 3, 4, 5>>, <<1, 2, 3, 4, 5, 6>>}

VARIABLES
    ver,        \* which definition of AuthService is compiled in: 1 or 2
    token,      \* localStorage['access_token']
    user,       \* currentUserSubject.value
    isInitializing,
    initializationCompleted,
    phase,      \* APP_INITIALIZER: "boot", "waiting" (promise pending), "ready"
    reqs,       \* the requests in flight
    issued,     \* number of requests issued so far
    cookie,     \* identity service: the user of the session cookie, 0 without one
    profile,    \* identity service: the editable part of each user's record
    subs,       \* currentUserSubject's observers, in the order they subscribed
    ev          \* what the last event-loop turn did

vars == <<ver, token, user, isInitializing, initializationCompleted, phase,
          reqs, issued, cookie, profile, subs, ev>>

\* ------------------------------------------------------------- sequences
RECURSIVE Count(_, _)
Count(log, x) ==
    IF log = <<>> THEN 0
    ELSE (IF Head(log) = x THEN 1 ELSE 0) + Count(Tail(log), x)

Occurs(log, x) == \E i \in 1..Len(log) : log[i] = x

\* position of the first x in log, 0 when absent
First(log, x) ==
    IF Occurs(log, x)
    THEN CHOOSE i \in 1..Len(log) : log[i] = x /\ \A j \in 1..(i - 1) : log[j] # x
    ELSE 0

Before(log, x, y) == Occurs(log, x) /\ Occurs(log, y) /\ First(log, x) < First(log, y)

\* ------------------------------------------------- the browser-side state
\* The part of the state one event-loop turn reads and writes, with the
\* ordered log of what the turn has done so far.
Cur == [token |-> token, user |-> user, reqs |-> reqs, issued |-> issued,
        subs |-> subs, notes |-> <<>>, log |-> <<>>]

Note(s, what) == [s EXCEPT !.log = Append(@, what)]

\* localStorage.setItem('access_token', token)
setToken(s, t) == Note([s EXCEPT !.token = t], "setItem")

\* localStorage.removeItem('access_token')
removeItem(s) == Note([s EXCEPT !.token = None], "removeItem")

\* currentUserSubject.next(v) that calls the observers last-subscribed first
nextUserReversed(s, v) ==
    LET n == Len(s.subs)
    IN  Note([s EXCEPT !.user = v,
                       !.subs = [i \in 1..n |-> [who |-> s.subs[i].who, seen |-> v]],
                       !.notes = @ \o [i \in 1..n |->
                                          [who |-> s.subs[n + 1 - i].who, val |-> v]]],
             IF v = None THEN "next(null)" ELSE "next(user)")

\* currentUserSubject.next(v): a BehaviorSubject stores v, then calls every
\* observer with v, in subscription order, before it returns.  An observer
\* (the components' callbacks) assigns the value to its currentUser field:
\* seen.  notes lists the calls made in the turn.
nextUser(s, v) ==
    LET n == Len(s.subs)
    IN  Note([s EXCEPT !.user = v,
                       !.subs = [i \in 1..n |-> [who |-> s.subs[i].who, seen |-> v]],
                       !.notes = @ \o [i \in 1..n |->
                                          [who |-> s.subs[i].who, val |-> v]]],
             IF v = None THEN "next(null)" ELSE "next(user)")

\* router.navigate([path])
navigate(s, path) == Note(s, path)

\* getAuthHeaders(): Authorization is `Bearer ${token}`, also when token is null
getAuthHeaders(s) == IF s.token = None THEN NullBearer ELSE s.token

ReqLabel(kind) ==
    CASE kind = "token"  -> "POST /token"
      [] kind = "cookie" -> "POST /token-cookie"
      [] kind = "me"     -> "GET /users/me"
      [] kind = "put"    -> "PUT /users/me"
      [] kind = "logout" -> "POST /logout"
      [] OTHER           -> "request"

\* an interceptor that sets the bearer but not X-Requested-With
interceptRequestNoXrw(s, hdr) ==
    IF s.token # None
    THEN [bearer |-> s.token, xrw |-> FALSE]
    ELSE [bearer |-> hdr, xrw |-> FALSE]

\* AuthInterceptor.intercept, the request side: with a token in localStorage
\* the Authorization header is set to it (replacing the caller's) and
\* X-Requested-With is added; without one the request goes out as built.
interceptRequest(s, hdr) ==
    IF s.token # None
    THEN [bearer |-> s.token, xrw |-> TRUE]
    ELSE [bearer |-> hdr, xrw |-> FALSE]

\* this.http.<method>(...) subscribed: the request passes the interceptor and
\* is in flight.  by: whose continuation waits for it; lid: the login()
\* invocation (the serial of its POST /token); u: the user the submitted
\* credentials belong to, or the submitted profile data; copy: tells apart
\* requests in flight that agree in everything else.
send(s, kind, by, lid, u, hdr) ==
    LET h == interceptRequest(s, hdr)
        q(c) == [copy |-> c, kind |-> kind, by |-> by, lid |-> lid,
                 u |-> u, bearer |-> h.bearer, xrw |-> h.xrw]
        n == CHOOSE c \in 1..(Cardinality(s.reqs) + 1) :
                 /\ q(c) \notin s.reqs
                 /\ \A d \in 1..(c - 1) : q(d) \in s.reqs
    IN  Note([s EXCEPT !.reqs = @ \cup {q(n)}, !.issued = @ + 1], ReqLabel(kind))

\* getCurrentUser(): GET /users/me with getAuthHeaders()
getCurrentUser(s, by, lid) == send(s, "me", by, lid, 0, getAuthHeaders(s))

\* logout() that issues POST /logout before it clears
logoutPostFirst(s) ==
    nextUser(removeItem(send(s, "logout", "logout", 0, 0, getAuthHeaders(s))), None)

\* logout(), first definition: clear, then always POST /logout
logoutV1(s) ==
    LET s1 == removeItem(s)
        s2 == nextUser(s1, None)
    IN  send(s2, "logout", "logout", 0, 0, getAuthHeaders(s2))

\* logout() that removes the token and leaves the user
logoutKeepsUser(s) == removeItem(s)

\* logout() that returns at once when no token is stored
logoutOnlyWithToken(s) ==
    IF s.token = None THEN s ELSE nextUser(removeItem(s), None)

\* logout() that posts whether or not a token is left
logoutAlwaysPosts(s) ==
    LET s2 == nextUser(removeItem(s), None)
    IN  send(s2, "logout", "logout", 0, 0, getAuthHeaders(s2))

\* logout(), second definition: clear, re-read the token that was just
\* removed, and POST /logout only when one is (still) there
logoutV2(s) ==
    LET s1 == removeItem(s)
        s2 == nextUser(s1, None)
        t  == s2.token
    IN  IF t = None
        THEN s2
        ELSE send(s2, "logout", "logout", 0, 0, getAuthHeaders(s2))

\* logout() as compiled in
logout(s) == IF ver = 1 THEN logoutV1(s) ELSE logoutV2(s)

\* an interceptor that logs out on every error
interceptErrorAnyStatus(s, status) ==
    IF status = 401
    THEN [s |-> Note(navigate(logout(s), "navigate:/login"), "throw:401"), err |-> status]
    ELSE [s |-> Note(navigate(logout(s), "navigate:/login"), "throw:500"), err |-> status]

\* an interceptor that replaces the 401 by another error
interceptErrorReplaced(s, status) ==
    IF status = 401
    THEN [s |-> Note(navigate(logout(s), "navigate:/login"), "throw:500"), err |-> 500]
    ELSE [s |-> Note(s, "throw:500"), err |-> status]

\* AuthInterceptor.intercept, the response side (catchError): a 401 logs out
\* and redirects to /login; every error is re-thrown unchanged.  The result
\* is the state and the status handed to the subscriber (0: nothing thrown).
interceptError(s, status) ==
    IF status = 401
    THEN [s |-> Note(navigate(logout(s), "navigate:/login"), "throw:401"), err |-> status]
    ELSE [s |-> Note(s, "throw:500"), err |-> status]

\* the request r leaves the set of requests in flight
Done(s, r) == [s EXCEPT !.reqs = @ \ {r}]

\* the turn's writes to the browser-side state; the guard caps the requests
Commit(s) ==
    /\ s.issued <= MaxReqs
    /\ token' = s.token
    /\ user' = s.user
    /\ reqs' = s.reqs
    /\ issued' = s.issued
    /\ subs' = s.subs

\* -------------------------------------------------- the identity service
\* The service is outside the repository: it may answer any request with 401
\* or with another error; it can answer 200 to an authenticated call only if
\* the call carries a token it issued or its session cookie is set.
IsToken(b) == b # None /\ b # NullBearer

CanOk(r) ==
    IF r.kind \in {"token", "cookie", "logout"}
    THEN TRUE
    ELSE IsToken(r.bearer) \/ cookie # 0

\* the user an authenticated call acts for
Subject(r) == IF IsToken(r.bearer) THEN r.bearer[2] ELSE cookie

Answers(r) == {st \in Statuses : st = 200 => CanOk(r)}

\* ------------------------------------------------------------ the guard
\* an AuthGuard that accepts a stored token alone
canActivateTokenOnly(s) ==
    IF s.token # None
    THEN Note(s, "return true")
    ELSE Note(navigate(s, "navigate:/login"), "return false")

\* an AuthGuard that logs out when it denies
canActivateLogsOut(s) ==
    IF s.token # None /\ s.user # None
    THEN Note(s, "return true")
    ELSE Note(navigate(logout(s), "navigate:/login"), "return false")

\* AuthGuard.canActivate: true with a token and a user, else redirect to
\* /login and false
canActivate(s) ==
    IF s.token # None /\ s.user # None
    THEN Note(s, "return true")
    ELSE Note(navigate(s, "navigate:/login"), "return false")

\* ---------------------------------------------------------- the callers
CallerErr(err) ==
    IF err = 401 THEN "caller.error:401"
    ELSE IF err = 500 THEN "caller.error:500" ELSE "caller.error:other"

\* a subscriber's error callback runs with the error the pipe delivers;
\* nothing runs when nothing was thrown
callerError(s, err) == IF err = 0 THEN s ELSE Note(s, CallerErr(err))

callerNext(s) == Note(s, "caller.next")

\* LoginComponent.onSubmit: next -> router.navigate(['/tasks']); /tasks is
\* guarded, so the router evaluates AuthGuard.canActivate for it
onSubmitNext(s) == canActivate(navigate(callerNext(s), "navigate:/tasks"))

\* initializeAuth: resolve()
resolve(s) == Note(s, "resolve")

\* --------------------------------------------------------- AuthService
\* checkAuthToken(), second definition.  f holds the two flags.
checkAuthToken(s, f) ==
    IF f.isInitializing
    THEN [s |-> s, f |-> f]
    ELSE IF s.token # None
         THEN [s |-> getCurrentUser(s, "check", 0),
               f |-> [f EXCEPT !.isInitializing = TRUE]]
         ELSE [s |-> nextUser(s, None),
               f |-> [f EXCEPT !.initializationCompleted = TRUE]]

\* initializeAuthState(), called by the second definition's constructor
initializeAuthState(s, f) ==
    IF s.token # None
    THEN checkAuthToken(s, f)
    ELSE [s |-> nextUser(s, None),
          f |-> [f EXCEPT !.initializationCompleted = TRUE]]

\* the constructor: empty in the first definition
constructor(v, s, f) ==
    IF v = 1 THEN [s |-> s, f |-> f] ELSE initializeAuthState(s, f)

\* checkAuthToken()'s subscriber: next
checkNext(s, val) == nextUser(s, val)

\* a checkAuthToken() whose error callback keeps the session
checkErrorKeepsSession(s) == Note(s, "console.log")

\* checkAuthToken()'s subscriber: error
checkError(s) == logout(s)

\* login() that fetches the profile without saving the token
loginOnTokenNoSave(s, lid, tok) == getCurrentUser(s, "login", lid)

\* login() that emits to its subscriber as soon as the token is saved
loginOnTokenEarly(s, lid, tok) ==
    callerNext(getCurrentUser(setToken(s, tok), "login", lid))

\* login(): tap(setToken) then switchMap(getCurrentUser)
loginOnToken(s, lid, tok) == getCurrentUser(setToken(s, tok), "login", lid)

\* a login() that drops the profile when the token is gone
loginOnUserIfToken(s, val) ==
    Note(IF s.token = None THEN s ELSE nextUser(s, val), "emit(response)")

\* a login() that emits without writing the user
loginOnUserNoWrite(s, val) == Note(s, "emit(response)")

\* login(): tap(currentUserSubject.next(user)) then map(() => response)
loginOnUser(s, val) == Note(nextUser(s, val), "emit(response)")

\* login() that re-throws without logging out
loginCatchErrorNoLogout(s) == Note(s, "rethrow")

\* login(): catchError(err => { this.logout(); throw err; })
loginCatchError(s) == Note(logout(s), "rethrow")

\* loginWithCookie(): tap(response => getCurrentUser().subscribe(...))
cookieOnToken(s) == Note(getCurrentUser(s, "cookie", 0), "emit(response)")

\* loginWithCookie()'s inner subscriber: next / error
cookieOnUser(s, val) == nextUser(s, val)

cookieOnError(s) == logout(s)

\* an updateProfile() that hands the record to its caller only
updateOnUserNoWrite(s, val) == Note(s, "emit(user)")

\* updateProfile(): tap(user => currentUserSubject.next(user))
updateOnUser(s, val) == Note(nextUser(s, val), "emit(user)")

\* -------------------------------------------------------- construction
NoReq == [kind |-> "-", by |-> "-", lid |-> 0]

Event(op, r, status, val, s) ==
    [op |-> op, kind |-> r.kind, by |-> r.by, lid |-> r.lid, status |-> status,
     val |-> val, hadToken |-> token # None, log |-> s.log,
     phase0 |-> phase, sent |-> s.reqs \ (reqs \ {r}), notes |-> s.notes,
     stale |-> /\ r \in reqs
               /\ token # None /\ user # None
               /\ IsToken(r.bearer) /\ r.bearer # token]

\* the state once AuthService (definition v) is constructed; localStorage may
\* hold the token a previous run left behind
InitFor(v) ==
    \E t \in {None, StaleToken} :
        LET s0 == [token |-> t, user |-> None, reqs |-> {}, issued |-> 0,
                   subs |-> <<>>, notes |-> <<>>, log |-> <<>>]
            f0 == [isInitializing |-> FALSE, initializationCompleted |-> FALSE]
            k  == constructor(v, s0, f0)
        IN  /\ ver = v
            /\ token = k.s.token
            /\ user = k.s.user
            /\ reqs = k.s.reqs
            /\ issued = k.s.issued
            /\ isInitializing = k.f.isInitializing
            /\ initializationCompleted = k.f.initializationCompleted
            /\ phase = "boot"
            /\ cookie = 0
            /\ profile = [u \in Users |-> 0]
            /\ subs = k.s.subs
            /\ ev = [op |-> "constructor", kind |-> "-", by |-> "-", lid |-> 0,
                     status |-> 0, val |-> None, hadToken |-> t # None,
                     log |-> k.s.log, phase0 |-> "boot", sent |-> k.s.reqs,
                     notes |-> k.s.notes, stale |-> FALSE]

Init == InitFor(2)

InitV1 == InitFor(1)

\* ------------------------------------------------------------- startup
\* the promise of initializeAuth is settled once resolve() has been called
Settled(s) == Occurs(s.log, "resolve")

\* an initializeAuth that validates whether or not a token is stored
initializeAuthAlwaysFetches(s) ==
    Note(getCurrentUser(s, "init", 0), "setTimeout")

\* initializeAuth, the promise executor: without a token resolve at once;
\* with one, GET /users/me and arm the timer
initializeAuth(s) ==
    IF s.token = None
    THEN resolve(s)
    ELSE Note(getCurrentUser(s, "init", 0), "setTimeout")

\* a timer callback that leaves the promise pending
onTimeoutIdle(s) == Note(s, "console.log")

\* initializeAuth: setTimeout(() => resolve(), 3000)
onTimeout(s) == resolve(s)

\* APP_INITIALIZER runs initializeAuth; the application is ready when the
\* promise is settled
AppInitializer ==
    /\ phase = "boot"
    /\ LET s == initializeAuth(Cur)
       IN  /\ Commit(s)
           /\ phase' = IF Settled(s) THEN "ready" ELSE "waiting"
           /\ ev' = Event("initializeAuth", NoReq, 0, None, s)
    /\ UNCHANGED <<ver, isInitializing, initializationCompleted, cookie, profile>>

\* the timer of initializeAuth fires while the promise is pending
Timeout ==
    /\ phase = "waiting"
    /\ LET s == onTimeout(Cur)
       IN  /\ Commit(s)
           /\ phase' = IF Settled(s) THEN "ready" ELSE phase
           /\ ev' = Event("timeout", NoReq, 0, None, s)
    /\ UNCHANGED <<ver, isInitializing, initializationCompleted, cookie, profile>>

\* ------------------------------------------------------------ the router
\* the router activates one of the guarded routes (tasks, profile, stats)
GuardedRoute ==
    /\ phase = "ready"
    /\ LET s == canActivate(Cur)
       IN  /\ Commit(s)
           /\ ev' = Event("canActivate", NoReq, 0, None, s)
    /\ UNCHANGED <<ver, isInitializing, initializationCompleted, phase, cookie,
                   profile>>

\* ------------------------------------------------------- the components
\* the components that subscribe to currentUser$ when a guarded route shows
\* them; the model follows one instance of each
Components == {"todo", "profile"}

Subscribed(s) == {s.subs[i].who : i \in 1..Len(s.subs)}

\* the currentUser field of component c (null until its callback has run)
Field(s, c) ==
    IF c \in Subscribed(s)
    THEN LET i == CHOOSE j \in 1..Len(s.subs) : s.subs[j].who = c IN s.subs[i].seen
    ELSE None

\* a subscribe() that, like a plain Subject, waits for the next write
subscribeNoReplay(s, c) ==
    Note([s EXCEPT !.subs = Append(@, [who |-> c, seen |-> None])], "subscribe")

\* currentUser$.subscribe(user => { this.currentUser = user; ... }): the
\* BehaviorSubject registers the observer and calls it at once with its
\* current value
subscribe(s, c) ==
    Note([s EXCEPT !.subs = Append(@, [who |-> c, seen |-> s.user]),
                   !.notes = Append(@, [who |-> c, val |-> s.user])],
         "subscribe")

\* TodoComponent.ngOnInit: subscribe, then loadTasks()
ngOnInitTodo(s) ==
    LET s1 == subscribe(s, "todo")
    IN  send(s1, "op", "caller", 0, 0, getAuthHeaders(s1))

\* ProfileComponent.ngOnInit: subscribe, then leave for /login when the
\* callback has not delivered a user
ngOnInitProfile(s) ==
    LET s1 == subscribe(s, "profile")
    IN  IF Field(s1, "profile") = None THEN navigate(s1, "navigate:/login") ELSE s1

ngOnInit(s, c) == IF c = "todo" THEN ngOnInitTodo(s) ELSE ngOnInitProfile(s)

\* a changePassword that checks the length only
changePasswordNoMatch(s, cur, new, conf) ==
    IF cur = <<>> \/ new = <<>>
    THEN Note(s, "error:required")
    ELSE IF Len(new) < MinPasswordLength
    THEN Note(s, "error:short")
    ELSE send(s, "op", "caller", 0, 0, getAuthHeaders(s))

\* ProfileComponent.changePassword: both fields required, the new password
\* must equal its confirmation and have MinPasswordLength characters; only
\* then authService.changePassword() sends the request
changePassword(s, cur, new, conf) ==
    IF cur = <<>> \/ new = <<>>
    THEN Note(s, "error:required")
    ELSE IF new # conf
    THEN Note(s, "error:mismatch")
    ELSE IF Len(new) < MinPasswordLength
    THEN Note(s, "error:short")
    ELSE send(s, "op", "caller", 0, 0, getAuthHeaders(s))

\* the guard has just permitted the navigation that shows component c
Permitted(c) ==
    /\ Len(ev.log) > 0
    /\ ev.log[Len(ev.log)] = "return true"
    /\ ev.op = "canActivate" \/ (ev.op = "response" /\ c = "todo")

\* the router creates the component of the permitted route
NgOnInit(c) ==
    /\ phase = "ready"
    /\ Permitted(c)
    /\ c \notin Subscribed(Cur)
    /\ LET s == ngOnInit(Cur, c)
       IN  /\ Commit(s)
           /\ ev' = Event("ngOnInit", NoReq, 0, None, s)
    /\ UNCHANGED <<ver, isInitializing, initializationCompleted, phase, cookie,
                   profile>>

\* the change-password form of the profile view is submitted.  checks tells
\* what the submitted fields are: required fields filled, confirmation
\* equal, length sufficient.
ChangePassword(cur, new, conf) ==
    /\ phase = "ready"
    /\ "profile" \in Subscribed(Cur)
    /\ LET s == changePassword(Cur, cur, new, conf)
           checks == <<cur # <<>> /\ new # <<>>, new = conf,
                       Len(new) >= MinPasswordLength>>
       IN  /\ Commit(s)
           /\ ev' = Event("changePassword", NoReq, 0, checks, s)
    /\ UNCHANGED <<ver, isInitializing, initializationCompleted, phase, cookie,
                   profile>>

\* --------------------------------------------------- user-triggered calls
\* a LoginComponent that submits whatever the fields hold
onSubmitUnchecked(s, u, p, lid) == send(s, "token", "login", lid, u, None)

\* LoginComponent.onSubmit: with an empty username (u = 0) or an empty
\* password (~p) set the error message and return; else authService.login(),
\* which posts the credentials
onSubmit(s, u, p, lid) ==
    IF u = 0 \/ ~p
    THEN Note(s, "error:required")
    ELSE send(s, "token", "login", lid, u, None)

\* the login form is submitted; val tells whether both fields were filled
Login(u, p) ==
    /\ phase = "ready"
    /\ LET lid == issued + 1
           s   == onSubmit(Cur, u, p, lid)
       IN  /\ Commit(s)
           /\ ev' = Event("login", [kind |-> "-", by |-> "-", lid |-> lid], 0,
                          <<u # 0 /\ p>>, s)
    /\ UNCHANGED <<ver, isInitializing, initializationCompleted, phase, cookie, profile>>

\* authService.loginWithCookie()
LoginWithCookie(u) ==
    /\ phase = "ready"
    /\ LET s == send(Cur, "cookie", "cookie", 0, u, None)
       IN  /\ Commit(s)
           /\ ev' = Event("loginWithCookie", NoReq, 0, None, s)
    /\ UNCHANGED <<ver, isInitializing, initializationCompleted, phase, cookie,
                   profile>>

\* NavbarComponent.logout / ProfileComponent.logout
LogoutClick ==
    /\ phase = "ready"
    /\ LET s == navigate(logout(Cur), "navigate:/login")
       IN  /\ Commit(s)
           /\ ev' = Event("logout", NoReq, 0, None, s)
    /\ UNCHANGED <<ver, isInitializing, initializationCompleted, phase, cookie,
                   profile>>

\* ProfileComponent.updateProfile: authService.updateProfile()
UpdateProfile(d) ==
    /\ phase = "ready"
    /\ LET s == send(Cur, "put", "caller", 0, d, getAuthHeaders(Cur))
       IN  /\ Commit(s)
           /\ ev' = Event("updateProfile", NoReq, 0, None, s)
    /\ UNCHANGED <<ver, isInitializing, initializationCompleted, phase, cookie, profile>>

\* changePassword, an admin operation or a task operation: one request built
\* with getAuthHeaders() whose result only goes to the caller
Operation ==
    /\ phase = "ready"
    /\ LET s == send(Cur, "op", "caller", 0, 0, getAuthHeaders(Cur))
       IN  /\ Commit(s)
           /\ ev' = Event("operation", NoReq, 0, None, s)
    /\ UNCHANGED <<ver, isInitializing, initializationCompleted, phase, cookie,
                   profile>>

\* ------------------------------------------------ completions of requests
\* POST /token answered, for login() invocation r.lid
TokenResponse ==
    \E r \in reqs, st \in Statuses :
        /\ r.kind = "token"
        /\ st \in Answers(r)
        /\ LET tok == <<r.lid, r.u>>
               k   == interceptError(Done(Cur, r), st)
               s   == IF st = 200
                      THEN loginOnToken(Done(Cur, r), r.lid, tok)
                      ELSE callerError(k.s, k.err)
           IN  /\ Commit(s)
               /\ ev' = Event("response", r, st, IF st = 200 THEN tok ELSE None, s)
        /\ UNCHANGED <<ver, isInitializing, initializationCompleted, phase, cookie, profile>>

\* GET /users/me answered, issued by login() invocation r.lid
LoginProfileResponse ==
    \E r \in reqs, st \in Statuses :
        /\ r.kind = "me" /\ r.by = "login"
        /\ st \in Answers(r)
        /\ LET val == <<Subject(r), profile[Subject(r)]>>
               k   == interceptError(Done(Cur, r), st)
               s   == IF st = 200
                      THEN onSubmitNext(loginOnUser(Done(Cur, r), val))
                      ELSE callerError(loginCatchError(k.s), k.err)
           IN  /\ Commit(s)
               /\ ev' = Event("response", r, st, IF st = 200 THEN val ELSE None, s)
        /\ UNCHANGED <<ver, isInitializing, initializationCompleted, phase, cookie, profile>>

\* POST /token-cookie answered: the service sets its cookie on success
CookieResponse ==
    \E r \in reqs, st \in Statuses :
        /\ r.kind = "cookie"
        /\ st \in Answers(r)
        /\ LET k == interceptError(Done(Cur, r), st)
               s == IF st = 200
                    THEN callerNext(cookieOnToken(Done(Cur, r)))
                    ELSE callerError(k.s, k.err)
           IN  /\ Commit(s)
               /\ cookie' = IF st = 200 THEN r.u ELSE cookie
               /\ ev' = Event("response", r, st, None, s)
        /\ UNCHANGED <<ver, isInitializing, initializationCompleted, phase, profile>>

\* GET /users/me answered, issued by loginWithCookie()
CookieProfileResponse ==
    \E r \in reqs, st \in Statuses :
        /\ r.kind = "me" /\ r.by = "cookie"
        /\ st \in Answers(r)
        /\ LET val == <<Subject(r), profile[Subject(r)]>>
               k   == interceptError(Done(Cur, r), st)
               s   == IF st = 200
                      THEN cookieOnUser(Done(Cur, r), val)
                      ELSE IF k.err = 0 THEN k.s ELSE cookieOnError(callerError(k.s, k.err))
           IN  /\ Commit(s)
               /\ ev' = Event("response", r, st, IF st = 200 THEN val ELSE None, s)
        /\ UNCHANGED <<ver, isInitializing, initializationCompleted, phase, cookie,
                       profile>>

\* GET /users/me answered, issued by checkAuthToken() (second definition).
\* The service is constructed for the APP_INITIALIZER and initializeAuth runs
\* in the same bootstrap, so no answer is handled before it.
CheckResponse ==
    \E r \in reqs, st \in Statuses :
        /\ phase # "boot"
        /\ r.kind = "me" /\ r.by = "check"
        /\ st \in Answers(r)
        /\ LET val == <<Subject(r), profile[Subject(r)]>>
               k   == interceptError(Done(Cur, r), st)
               s   == IF st = 200
                      THEN checkNext(Done(Cur, r), val)
                      ELSE IF k.err = 0 THEN k.s ELSE checkError(callerError(k.s, k.err))
           IN  /\ Commit(s)
               /\ isInitializing' = IF st # 200 /\ k.err = 0 THEN isInitializing ELSE FALSE
               /\ initializationCompleted' =
                      IF st # 200 /\ k.err = 0 THEN initializationCompleted ELSE TRUE
               /\ ev' = Event("response", r, st, IF st = 200 THEN val ELSE None, s)
        /\ UNCHANGED <<ver, phase, cookie, profile>>

\* GET /users/me answered, issued by initializeAuth (APP_INITIALIZER)
InitResponse ==
    \E r \in reqs, st \in Statuses :
        /\ r.kind = "me" /\ r.by = "init"
        /\ st \in Answers(r)
        /\ LET val == <<Subject(r), profile[Subject(r)]>>
               k   == interceptError(Done(Cur, r), st)
               s   == IF st = 200
                      THEN resolve(callerNext(Done(Cur, r)))
                      ELSE IF k.err = 0 THEN k.s
                           ELSE resolve(logout(callerError(k.s, k.err)))
           IN  /\ Commit(s)
               /\ phase' = IF Settled(s) THEN "ready" ELSE phase
               /\ ev' = Event("response", r, st, IF st = 200 THEN val ELSE None, s)
        /\ UNCHANGED <<ver, isInitializing, initializationCompleted, cookie, profile>>

\* PUT /users/me answered: the service stores the update and returns the record
UpdateResponse ==
    \E r \in reqs, st \in Statuses :
        /\ r.kind = "put"
        /\ st \in Answers(r)
        /\ LET val == <<Subject(r), r.u>>
               k   == interceptError(Done(Cur, r), st)
               s   == IF st = 200
                      THEN callerNext(updateOnUser(Done(Cur, r), val))
                      ELSE callerError(k.s, k.err)
           IN  /\ Commit(s)
               /\ profile' = IF st = 200 THEN [profile EXCEPT ![Subject(r)] = r.u]
                              ELSE profile
               /\ ev' = Event("response", r, st, IF st = 200 THEN val ELSE None, s)
        /\ UNCHANGED <<ver, isInitializing, initializationCompleted, phase, cookie>>

\* the request of changePassword, an admin operation or a task operation answered
OperationResponse ==
    \E r \in reqs, st \in Statuses :
        /\ r.kind = "op"
        /\ st \in Answers(r)
        /\ LET k == interceptError(Done(Cur, r), st)
               s == IF st = 200 THEN callerNext(Done(Cur, r)) ELSE callerError(k.s, k.err)
           IN  /\ Commit(s)
               /\ ev' = Event("response", r, st, None, s)
        /\ UNCHANGED <<ver, isInitializing, initializationCompleted, phase, cookie,
                       profile>>

\* POST /logout answered: the subscriber only logs; the service drops its cookie
LogoutResponse ==
    \E r \in reqs, st \in Statuses :
        /\ r.kind = "logout"
        /\ st \in Answers(r)
        /\ LET k == interceptError(Done(Cur, r), st)
               s == IF st = 200 THEN Note(Done(Cur, r), "console.log")
                    ELSE IF k.err = 0 THEN k.s ELSE Note(k.s, "console.log")
           IN  /\ Commit(s)
               /\ cookie' = IF st = 200 THEN 0 ELSE cookie
               /\ ev' = Event("response", r, st, None, s)
        /\ UNCHANGED <<ver, isInitializing, initializationCompleted, phase, profile>>

\* ------------------------------------------------------ specifications
Common ==
    \/ AppInitializer
    \/ Timeout
    \/ \E u \in Users \cup {0}, p \in BOOLEAN : Login(u, p)
    \/ \E u \in Users : LoginWithCookie(u)
    \/ LogoutClick
    \/ \E d \in Data : UpdateProfile(d)
    \/ Operation
    \/ GuardedRoute
    \/ TokenResponse
    \/ LoginProfileResponse
    \/ CookieResponse
    \/ CookieProfileResponse
    \/ InitResponse
    \/ UpdateResponse
    \/ OperationResponse

\* the application as it stands (second definition of AuthService)
Next == Common \/ CheckResponse

Spec == Init /\ [][Next]_vars

\* the application with the first definition of AuthService
NextV1 == Common \/ LogoutResponse

SpecV1 == InitV1 /\ [][NextV1]_vars

\* The application with the browser's scheduling: bootstrap runs the
\* APP_INITIALIZER, and a timer that was armed fires.  Nothing makes the
\* identity service answer: a request may stay in flight for ever.
SpecLive == Spec /\ WF_vars(AppInitializer) /\ WF_vars(Timeout)

\* The application as its views drive it: every turn of the second
\* definition but loginWithCookie(), which no component calls, and the
\* components that observe Session State.
NextView ==
    \/ AppInitializer
    \/ Timeout
    \/ \E u \in Users \cup {0}, p \in BOOLEAN : Login(u, p)
    \/ LogoutClick
    \/ \E d \in Data : UpdateProfile(d)
    \/ Operation
    \/ GuardedRoute
    \/ \E c \in Components : NgOnInit(c)
    \/ \E cur \in {<<>>, <<1, 2, 3, 4, 5>>}, new \in Passwords, conf \in Passwords :
           ChangePassword(cur, new, conf)
    \/ TokenResponse
    \/ LoginProfileResponse
    \/ CheckResponse
    \/ InitResponse
    \/ UpdateResponse
    \/ OperationResponse

SpecView == Init /\ [][NextView]_vars

\* ------------------------------------------------------------- claims
IsResponse(kind, by) == ev.op = "response" /\ ev.kind = kind /\ ev.by = by

\* C1: in every reachable state, a populated Session State implies that
\* Credential Store holds a token.
C1_SessionImpliesCredential == user # None => token # None

\* C2: when the profile fetch of login() fails (401 or any other error),
\* Credential Store and Session State are both empty and the failure has been
\* delivered to login()'s caller.
C2_ProfileFailureRollsBack ==
    (IsResponse("me", "login") /\ ev.status # 200) =>
        /\ token = None
        /\ user = None
        /\ Occurs(ev.log, CallerErr(ev.status))
        /\ ~Occurs(ev.log, "caller.next")

\* a login whose token was persisted and whose profile fetch then failed with
\* a server error
C2_Witness == IsResponse("me", "login") /\ ev.status = 500 /\ ev.hadToken

C4_LoginOrdering ==
    /\ (IsResponse("token", "login") /\ ev.status = 200) =>
           /\ Before(ev.log, "setItem", "GET /users/me")
           /\ ~Occurs(ev.log, "caller.next")
    /\ (ev.by = "login" /\ Occurs(ev.log, "caller.next")) =>
           /\ ev.kind = "me" /\ ev.status = 200
           /\ Before(ev.log, "next(user)", "caller.next")
           /\ user # None

\* login()'s success reaches LoginComponent, which navigates to /tasks
C4_Witness ==
    /\ IsResponse("me", "login")
    /\ Before(ev.log, "caller.next", "navigate:/tasks")
    /\ user # None

\* C5: a request answered with 401 clears Credential Store and Session State
\* exactly once.
C5_ClearedExactlyOnce ==
    (ev.op = "response" /\ ev.status = 401) =>
        /\ Count(ev.log, "removeItem") = 1
        /\ Count(ev.log, "next(null)") = 1

\* C6: on a 401 the interceptor clears Credential Store and Session State,
\* then signals the redirect to /login, then the error reaches the request's
\* caller as the same 401.
C6_Intercept401 ==
    (ev.op = "response" /\ ev.status = 401) =>
        /\ token = None
        /\ user = None
        /\ Before(ev.log, "removeItem", "navigate:/login")
        /\ Before(ev.log, "next(null)", "navigate:/login")
        /\ Before(ev.log, "navigate:/login", "caller.error:401")
        /\ ~Occurs(ev.log, "caller.error:500")
        /\ ~Occurs(ev.log, "caller.next")

\* an authenticated operation of a logged-in user is answered with 401
C6_Witness ==
    /\ ev.op = "response" /\ ev.kind = "op" /\ ev.status = 401
    /\ ev.hadToken
    /\ Occurs(ev.log, "caller.error:401")

StoresOf(s) == [token |-> s.token, user |-> s.user, reqs |-> s.reqs,
                issued |-> s.issued]

\* C7: after logout() both stores are empty, whatever the state before, and a
\* second logout() changes nothing.
C7_LogoutClearsIdempotent ==
    /\ ev.op = "logout" => (token = None /\ user = None)
    /\ StoresOf(logout(Cur)).token = None
    /\ StoresOf(logout(Cur)).user = None
    /\ StoresOf(logout(logout(Cur))) = StoresOf(logout(Cur))

\* logout() ran although no credential was stored
C7_Witness == ev.op = "logout" /\ ~ev.hadToken /\ token = None /\ user = None

\* C8: logout() invoked while a credential is stored issues POST /logout.
C8_LogoutPostsWithCredential ==
    (ev.op = "logout" /\ ev.hadToken) => Occurs(ev.log, "POST /logout")

C10_ServerLogoutNonFatal ==
    /\ \A i \in 1..Len(ev.log) :
           ev.log[i] = "POST /logout" =>
               (i > 2 /\ ev.log[i - 1] = "next(null)" /\ ev.log[i - 2] = "removeItem")
    /\ Occurs(ev.log, "POST /logout") => (token = None /\ user = None)
    /\ IsResponse("logout", "logout") =>
           /\ ~Occurs(ev.log, "caller.next")
           /\ \A st \in Statuses : ~Occurs(ev.log, CallerErr(st))
           /\ ~Occurs(ev.log, "setItem")
           /\ ~Occurs(ev.log, "next(user)")
           /\ ~ev.hadToken => token = None

\* the server-side logout call failed with a server error
C10_Witness ==
    /\ IsResponse("logout", "logout") /\ ev.status = 500
    /\ token = None /\ user = None

\* the guard ran and returned v ("return true" / "return false")
Guarded(v) == ev.op = "canActivate" /\ ev.log[Len(ev.log)] = v

\* C11: the guard permits navigation exactly when, at its evaluation, a token
\* is stored and Session State holds a user; otherwise it denies.  (The
\* evaluation writes no user, so Session State after it is the one it read.)
C11_GuardPermitsIff ==
    ev.op = "canActivate" =>
        /\ ~Occurs(ev.log, "next(null)") /\ ~Occurs(ev.log, "next(user)")
        /\ Guarded("return true") <=> (ev.hadToken /\ user # None)
        /\ Guarded("return false") <=> ~(ev.hadToken /\ user # None)

\* the guard denied although a token was stored: no user had been loaded
C11_Witness == Guarded("return false") /\ ev.hadToken /\ user = None

\* C12: evaluating the guard issues no request and changes neither store, in
\* whatever state it runs; a denial signals the redirect to /login and then
\* returns false, a permit does nothing else.
C12_GuardSideEffectFree ==
    /\ StoresOf(canActivate(Cur)) = StoresOf(Cur)
    /\ Guarded("return false") => ev.log = <<"navigate:/login", "return false">>
    /\ Guarded("return true") => ev.log = <<"return true">>
    /\ ev.op = "canActivate" => ev.sent = {}

\* the guard denied while a user was in Session State without a token, and
\* requests were in flight
C12_Witness ==
    /\ Guarded("return false") /\ user # None /\ ~ev.hadToken /\ reqs # {}
    /\ Occurs(ev.log, "navigate:/login")

\* C13: started without a stored token, neither the construction of
\* AuthService nor initializeAuth issues a request, and initializeAuth signals
\* readiness at once with Session State empty.
C13_NoCredentialStartup ==
    /\ (ev.op = "constructor" /\ ~ev.hadToken) =>
           /\ user = None /\ issued = 0 /\ reqs = {}
           /\ ev.log = <<"next(null)">>
    /\ (ev.op = "initializeAuth" /\ ~ev.hadToken) =>
           /\ phase = "ready"
           /\ user = None /\ token = None
           /\ issued = 0 /\ reqs = {}
           /\ ev.log = <<"resolve">>

\* initializeAuth has run without a stored token
C13_Witness ==
    /\ ev.op = "initializeAuth" /\ ~ev.hadToken /\ ev.phase0 = "boot"
    /\ phase = "ready" /\ issued = 0

\* C14: once initializeAuth waits for its validating fetch, readiness is
\* eventually signalled, also when that fetch is never answered: the timer
\* fires.
C14_ReadyDespitePendingFetch == (phase = "waiting") ~> (phase = "ready")

\* the timer signalled readiness while the validating fetch of initializeAuth
\* was still in flight
C14_Witness ==
    /\ ev.op = "timeout" /\ ev.phase0 = "waiting" /\ phase = "ready"
    /\ \E r \in reqs : r.kind = "me" /\ r.by = "init"

\* C15: when the validating fetch of initializeAuth succeeds while the
\* promise is pending, readiness is signalled in that turn and Session State
\* then holds the fetched user.
C15_ReadyWithFetchedUser ==
    (IsResponse("me", "init") /\ ev.status = 200 /\ ev.phase0 = "waiting") =>
        (phase = "ready" /\ user = ev.val)

\* C16: when the timer has signalled readiness first, the validating fetch of
\* initializeAuth is still in flight and its answer still applies: a success
\* leaves the fetched user in Session State, a failure leaves both stores
\* empty.
C16_LateCompletionApplies ==
    /\ (ev.op = "timeout" /\ ev.phase0 = "waiting") =>
           \E r \in reqs : r.kind = "me" /\ r.by = "init"
    /\ (IsResponse("me", "init") /\ ev.phase0 = "ready") =>
           /\ ev.status = 200 => user = ev.val
           /\ ev.status # 200 => (token = None /\ user = None)

\* the requests in flight that validate the stored token at startup
Validations == {r \in reqs : r.kind = "me" /\ r.by \in {"check", "init"}}

\* C17: at most one credential-validating profile fetch is in flight.
C17_OneValidationInFlight == Cardinality(Validations) <= 1

\* C18: a failed profile fetch, whoever issued it (login, loginWithCookie,
\* checkAuthToken, initializeAuth) and whatever the error, runs logout(): both
\* stores are empty afterwards.
C18_FailedProfileFetchLogsOut ==
    (ev.op = "response" /\ ev.kind = "me" /\ ev.status # 200) =>
        /\ ev.by \in {"login", "cookie", "check", "init"}
        /\ Occurs(ev.log, "removeItem")
        /\ Occurs(ev.log, "next(null)")
        /\ token = None
        /\ user = None

\* the startup validation of a stored token failed with a server error
C18_Witness ==
    /\ IsResponse("me", "check") /\ ev.status = 500 /\ ev.hadToken
    /\ token = None /\ user = None

\* C19: an error other than 401 answering updateProfile, changePassword, an
\* admin operation or a task operation writes no token and no user, issues
\* nothing, and reaches the caller as that error.
C19_OtherErrorsLeaveStores ==
    (ev.op = "response" /\ ev.kind \in {"put", "op"} /\ ev.status \notin {200, 401}) =>
        /\ ev.log = <<"throw:500", CallerErr(ev.status)>>
        /\ ev.sent = {}
        /\ ev.hadToken <=> token # None

\* updateProfile of a logged-in user failed with a server error
C19_Witness ==
    /\ IsResponse("put", "caller") /\ ev.status = 500
    /\ token # None /\ user # None
    /\ Occurs(ev.log, "caller.error:500")

\* the Authorization header the caller of a request of this kind builds
BuiltHeader(kind) == IF kind \in {"token", "cookie"} THEN None ELSE NullBearer

\* C20: every request sent in a turn carries, when a token is stored at that
\* moment, that token as its bearer and X-Requested-With; when none is stored
\* it goes out as its caller built it.  X-Requested-With never travels
\* without a stored token's bearer.
C20_InterceptorHeaders ==
    /\ \A r \in ev.sent :
           IF token # None
           THEN r.bearer = token /\ r.xrw
           ELSE r.bearer = BuiltHeader(r.kind) /\ ~r.xrw
    /\ \A r \in reqs : r.xrw <=> IsToken(r.bearer)

\* login() stored a token and its profile fetch went out with that token
C20_Witness ==
    /\ IsResponse("token", "login") /\ ev.status = 200 /\ ~ev.hadToken
    /\ \E r \in ev.sent : r.kind = "me" /\ r.bearer = ev.val /\ r.xrw

\* the values the turn wrote to Session State, in order: next(null) writes
\* null and the turn's only next(user) writes the record it received
RECURSIVE Writes(_)
Writes(log) ==
    IF log = <<>> THEN <<>>
    ELSE LET rest == Writes(Tail(log))
         IN  IF Head(log) = "next(null)" THEN <<None>> \o rest
             ELSE IF Head(log) = "next(user)" THEN <<ev.val>> \o rest
             ELSE rest

\* one call per observer, in subscription order, for each value written
RECURSIVE InOrder(_)
InOrder(ws) ==
    IF ws = <<>> THEN <<>>
    ELSE [i \in 1..Len(subs) |-> [who |-> subs[i].who, val |-> Head(ws)]]
             \o InOrder(Tail(ws))

\* C21: after every turn Session State holds the last value the turn wrote,
\* every observer holds that same value (none holds an older one), and the
\* calls made to the observers are, for each write in turn, one call per
\* observer with the written value in the order they subscribed.
C21_WritesNotifyInOrder ==
    /\ \A i \in 1..Len(subs) : subs[i].seen = user
    /\ Writes(ev.log) # <<>> => user = Writes(ev.log)[Len(Writes(ev.log))]
    /\ ev.op # "ngOnInit" => ev.notes = InOrder(Writes(ev.log))

\* a user record was written while two components observed Session State
C21_Witness ==
    /\ Len(subs) = 2 /\ user # None
    /\ Writes(ev.log) = <<user>>
    /\ ev.notes = <<[who |-> subs[1].who, val |-> user],
                    [who |-> subs[2].who, val |-> user]>>

\* C22: a component that subscribes is called in that same turn with the
\* value Session State holds, without any write; and in whatever state a
\* component subscribes, its field then holds the current value (null when
\* none is loaded).
C22_LateSubscriberReplay ==
    /\ ev.op = "ngOnInit" =>
           /\ Writes(ev.log) = <<>>
           /\ Len(subs) > 0
           /\ subs[Len(subs)].seen = user
           /\ ev.notes = <<[who |-> subs[Len(subs)].who, val |-> user]>>
    /\ \A c \in Components \ Subscribed(Cur) : Field(subscribe(Cur, c), c) = user

\* a second component subscribed after the user had been loaded
C22_Witness ==
    /\ ev.op = "ngOnInit" /\ Len(subs) = 2 /\ user # None
    /\ subs[2].seen = user

\* C23: a change-password submission whose new password is shorter than
\* MinPasswordLength or differs from its confirmation sends nothing, writes
\* neither store and shows an error; the request goes out exactly when the
\* three checks pass.
C23_ChangePasswordRejectedLocally ==
    ev.op = "changePassword" =>
        /\ (~ev.val[2] \/ ~ev.val[3]) =>
               /\ ev.sent = {}
               /\ Len(ev.log) = 1
               /\ ev.log[1] \in {"error:required", "error:mismatch", "error:short"}
               /\ ev.hadToken <=> token # None
        /\ ev.sent # {} <=> (ev.val[1] /\ ev.val[2] /\ ev.val[3])

\* a new password of sufficient length that differs from its confirmation
\* was rejected
C23_Witness ==
    /\ ev.op = "changePassword"
    /\ ev.val = <<TRUE, FALSE, TRUE>>
    /\ ev.log = <<"error:mismatch">> /\ ev.sent = {}

\* C27: a login submission with an empty username or an empty password sends
\* no request and writes neither store: it only sets the error message.  A
\* submission with both fields filled posts the credentials.
C27_EmptyLoginFieldsRejected ==
    ev.op = "login" =>
        /\ ~ev.val[1] =>
               /\ ev.log = <<"error:required">>
               /\ ev.sent = {}
               /\ ev.hadToken <=> token # None
        /\ ev.val[1] => Occurs(ev.log, "POST /token")

\* an incomplete login form was submitted while a user was logged in
C27_Witness ==
    /\ ev.op = "login" /\ ~ev.val[1]
    /\ ev.log = <<"error:required">>
    /\ token # None /\ user # None

\* C24: when updateProfile() succeeds, Session State holds the record the
\* server returned, written before the caller's success callback runs, and
\* the turn does not touch Credential Store.
C24_UpdateProfileSuccess ==
    (IsResponse("put", "caller") /\ ev.status = 200) =>
        /\ user = ev.val
        /\ Before(ev.log, "next(user)", "caller.next")
        /\ ~Occurs(ev.log, "setItem") /\ ~Occurs(ev.log, "removeItem")
        /\ ev.hadToken <=> token # None

\* a logged-in user's update was stored and came back with the new content
C24_Witness ==
    /\ IsResponse("put", "caller") /\ ev.status = 200
    /\ token # None /\ user = ev.val
    /\ user[1] = token[2] /\ user[2] = 1

\* C25: the turn that handles a failed request does not issue that request
\* again.
C25_NoAutomaticRetry ==
    (ev.op = "response" /\ ev.status # 200) =>
        \A r \in ev.sent : r.kind # ev.kind

C28_LoginNavigationPermitted ==
    (IsResponse("me", "login") /\ Occurs(ev.log, "navigate:/tasks") /\ ev.hadToken) =>
        /\ Before(ev.log, "caller.next", "navigate:/tasks")
        /\ Before(ev.log, "navigate:/tasks", "return true")
        /\ ~Occurs(ev.log, "return false")
        /\ ~Occurs(ev.log, "navigate:/login")

\* a login went through with its own token still stored and was let into
\* /tasks
C28_Witness ==
    /\ IsResponse("me", "login") /\ ev.status = 200 /\ ev.hadToken
    /\ token # None /\ token[1] = ev.lid
    /\ ev.log[Len(ev.log)] = "return true"

\* C29: whenever a token is stored, a user is in Session State and no request
\* is in flight, that user is the one the token was issued to.
C29_UserMatchesToken ==
    (token # None /\ user # None /\ reqs = {}) => user[1] = token[2]

\* C30 as stated: a 401 answering a request that was sent under another
\* credential than the one stored now, while a session is established, leaves
\* that credential and session in place.
C30_Stale401KeepsSession ==
    (ev.op = "response" /\ ev.status = 401 /\ ev.stale) =>
        (token # None /\ user # None)

\* C30 amended: a 401 clears Credential Store and Session State whichever
\* credential the rejected request was sent under, also the credential and
\* session of a later login.
C30_Any401ClearsSession ==
    (ev.op = "response" /\ ev.status = 401 /\ ev.stale) =>
        /\ token = None /\ user = None
        /\ Occurs(ev.log, "removeItem") /\ Occurs(ev.log, "next(null)")

\* a request sent under an earlier credential was rejected after a later
\* login had established its session
C30_Witness ==
    /\ ev.op = "response" /\ ev.status = 401 /\ ev.stale
    /\ token = None /\ user = None

====
